---- MODULE Spec2Model ----
(***************************************************************************)
(* A model of the weather assistant's in-memory stores:                    *)
(*   - SessionManager (server/session_manager.py): the per-user session    *)
(*     store with its 24 hour expiry;                                      *)
(*   - the response caches of WeatherService and AirQualityService         *)
(*     (server/services/*.py);                                             *)
(*   - periodic_cleanup (server/main.py), the task that sweeps the session *)
(*     store;                                                              *)
(*   - the send_chat_message and delete_session endpoints (server/main.py) *)
(*     as coroutines on the one event loop;                                *)
(*   - the AQI computation of AirQualityService and the cache keys of      *)
(*     WeatherService.                                                     *)
(* Time is an integer clock that counts seconds.                            *)
(***************************************************************************)
EXTENDS Integers, Sequences, FiniteSets, TLC

VARIABLES
    user_sessions,  \* SessionManager.user_sessions: user_id -> (session_id -> ChatSession)
    now,            \* datetime.now(timezone.utc), in seconds
    uuidSessions,   \* number of session ids uuid4 has handed out
    uuidMessages,   \* number of message ids uuid4 has handed out
    last,           \* the last call made on the SessionManager, with what it returned
    budget,         \* the length a run is cut at (fixed by the initial state)
    cache,          \* WeatherService.cache: key -> {"data", "timestamp"}
    aq_cache,       \* AirQualityService.cache: key -> {"data", "timestamp"}
    fetch,          \* the last call made on a service, with what it returned
    failed,         \* history: the keys whose latest fetch failed upstream
    probe,          \* the last call of a service made for itself: arguments and result
    user_keys,      \* the keys of user_sessions in the order they were inserted
    sweeper,        \* the periodic_cleanup task: where it is and what it holds
    requests,       \* the HTTP requests of a run: where each handler is and what it holds
    running         \* the request whose handler holds the event loop, or 0

cacheVars == <<cache, aq_cache, fetch, failed, probe>>
sweepVars == <<user_keys, sweeper>>
chatVars == <<requests, running>>
storeVars == <<user_sessions, uuidSessions, uuidMessages, last, budget, sweepVars,
               chatVars>>
vars == <<user_sessions, now, uuidSessions, uuidMessages, last, budget,
          cache, aq_cache, fetch, failed, probe, user_keys, sweeper, requests,
          running>>

------------------------------------------------------------------------------
(* Bounds of the model. *)

MaxOps == 4         \* create_session calls, appended messages and clock steps in a run
TickSeconds == 43200 \* what the session store's clock advances by in one step (12 h)
MaxHistoryOps == 12 \* the same, in the runs that build one long conversation
MaxDays == 1        \* whole days the services' clock runs past its start
MaxSweepOps == 4    \* as MaxOps, in the runs the cleanup task takes part in
MaxRequests == 3    \* HTTP requests in a run
MaxChatTicks == 2   \* clock steps in the runs the HTTP requests take part in
MaxPm25 == 501      \* the largest PM2.5 concentration asked about, in ug/m3
MaxKindTicks == 1   \* clock steps in the runs that exercise the cache keys

Users == {"u1", "u2"}
(* The (role, content) pairs add_message is called with. *)
MessageInputs == {<<"user", "hello">>, <<"assistant", "hi">>}
Limits == {0, 1, 2}
(* A limit argument: not supplied (so that the default applies) or a number. *)
Unset == <<>>
LimitArgs == {Unset} \cup {<<n>> : n \in Limits}

------------------------------------------------------------------------------
(* Program constants. *)

session_timeout == 86400        \* timedelta(hours=24)
SecondsPerDay == 86400
DefaultHistoryLimit == 10       \* get_conversation_history(..., limit: int = 10)
DefaultListLimit == 50          \* list_sessions(..., limit: int = 50)
cache_duration == 300           \* WeatherService.cache_duration, seconds
aq_cache_duration == 600        \* AirQualityService.cache_duration, seconds

------------------------------------------------------------------------------
(* datetime <-> ISO-8601 text.  A UTC instant is written most significant  *)
(* field first; here the fields are (day, second of the day).              *)

isoformat(t) == <<t \div SecondsPerDay, t % SecondsPerDay>>

fromisoformat(s) == s[1] * SecondsPerDay + s[2]

(* Python's str comparison of two timestamps: field by field, left to right. *)
StrLess(a, b) == a[1] < b[1] \/ (a[1] = b[1] /\ a[2] < b[2])

------------------------------------------------------------------------------
(* Python list slicing seq[start:] and seq[:stop]. *)

Max(a, b) == IF a >= b THEN a ELSE b
Min(a, b) == IF a <= b THEN a ELSE b

SliceFrom(seq, start) ==
    LET n == Len(seq)
        k == IF start < 0 THEN Max(n + start, 0) ELSE Min(start, n)
    IN  SubSeq(seq, k + 1, n)

SliceTo(seq, stop) ==
    LET n == Len(seq)
        k == IF stop < 0 THEN Max(n + stop, 0) ELSE Min(stop, n)
    IN  SubSeq(seq, 1, k)

------------------------------------------------------------------------------
(* SessionManager: the pure parts.  An Optional[X] is a sequence of length *)
(* 0 (None) or 1.                                                          *)

None == <<>>
Some(x) == <<x>>

ChatSession(sid, t) ==
    [session_id |-> sid, messages |-> <<>>,
     created_at |-> isoformat(t), last_activity |-> isoformat(t)]

ChatMessage(role, content, t, mid) ==
    [role |-> role, content |-> content, timestamp |-> isoformat(t),
     message_id |-> mid]

is_session_valid_le(session, t) ==
    t - fromisoformat(session.last_activity) <= session_timeout

(* Variant: a session never stops being valid. *)
is_session_valid_always(session, t) == TRUE

is_session_valid(session, t) ==
    t - fromisoformat(session.last_activity) < session_timeout

get_session_any_user(us, t, sid, u) ==
    LET owners == {v \in DOMAIN us : sid \in DOMAIN us[v]}
    IN  IF owners = {} THEN None
        ELSE LET v == CHOOSE w \in owners : TRUE
             IN  IF is_session_valid(us[v][sid], t) THEN Some(us[v][sid]) ELSE None

(* Variant: a stored session is returned whatever its age. *)
get_session_ignoring_expiry(us, t, sid, u) ==
    IF u \in DOMAIN us /\ sid \in DOMAIN us[u] THEN Some(us[u][sid]) ELSE None

get_session(us, t, sid, u) ==
    IF u \notin DOMAIN us THEN None
    ELSE IF sid \in DOMAIN us[u] /\ is_session_valid(us[u][sid], t)
         THEN Some(us[u][sid])
         ELSE None

get_conversation_history_first(us, t, sid, u, limit) ==
    LET s == get_session(us, t, sid, u)
        lim == IF limit = Unset THEN DefaultHistoryLimit ELSE limit[1]
    IN  IF s = None THEN <<>>
        ELSE IF lim # 0 THEN SliceTo(s[1].messages, lim) ELSE s[1].messages

(* Variant: a history read with no limit returns the whole list. *)
get_conversation_history_unset_all(us, t, sid, u, limit) ==
    LET s == get_session(us, t, sid, u)
    IN  IF s = None THEN <<>>
        ELSE IF limit # Unset /\ limit[1] # 0
             THEN SliceFrom(s[1].messages, -limit[1])
             ELSE s[1].messages

get_conversation_history(us, t, sid, u, limit) ==
    LET s == get_session(us, t, sid, u)
        lim == IF limit = Unset THEN DefaultHistoryLimit ELSE limit[1]
    IN  IF s = None THEN <<>>
        ELSE IF lim # 0 THEN SliceFrom(s[1].messages, -lim) ELSE s[1].messages

(* dict iteration order is insertion order; session ids are handed out in  *)
(* increasing order and never reused, so it is increasing session id.      *)
RECURSIVE DictValues(_, _)
DictValues(d, ids) ==
    IF ids = {} THEN <<>>
    ELSE LET k == CHOOSE x \in ids : \A y \in ids : x <= y
         IN  <<d[k]>> \o DictValues(d, ids \ {k})

(* list.sort(key=last_activity, reverse=True): stable, keys compared as text. *)
RECURSIVE SortByLastActivityDesc(_)
SortByLastActivityDesc(seq) ==
    IF seq = <<>> THEN <<>>
    ELSE LET i == CHOOSE j \in 1..Len(seq) :
                    /\ \A k \in 1..Len(seq) :
                          ~StrLess(seq[j].last_activity, seq[k].last_activity)
                    /\ \A k \in 1..(j - 1) :
                          StrLess(seq[k].last_activity, seq[j].last_activity)
             rest == SubSeq(seq, 1, i - 1) \o SubSeq(seq, i + 1, Len(seq))
         IN  <<seq[i]>> \o SortByLastActivityDesc(rest)

(* Variant: the sessions of every user are listed. *)
list_sessions_every_user(us, t, u, limit) ==
    LET ids == UNION {DOMAIN us[v] : v \in DOMAIN us}
        all == DictValues([sid \in ids |->
                             us[CHOOSE v \in DOMAIN us : sid \in DOMAIN us[v]][sid]],
                          ids)
        Valid(s) == is_session_valid(s, t)
        valid_sessions == SortByLastActivityDesc(SelectSeq(all, Valid))
        lim == IF limit = Unset THEN DefaultListLimit ELSE limit[1]
    IN  SliceTo(valid_sessions, lim)

(* Variant: the sort is ascending (reverse=True forgotten). *)
list_sessions_ascending(us, t, u, limit) ==
    IF u \notin DOMAIN us THEN <<>>
    ELSE LET all == DictValues(us[u], DOMAIN us[u])
             Valid(s) == is_session_valid(s, t)
             desc == SortByLastActivityDesc(SelectSeq(all, Valid))
             valid_sessions == [i \in 1..Len(desc) |-> desc[Len(desc) + 1 - i]]
             lim == IF limit = Unset THEN DefaultListLimit ELSE limit[1]
         IN  SliceTo(valid_sessions, lim)

list_sessions(us, t, u, limit) ==
    IF u \notin DOMAIN us THEN <<>>
    ELSE LET all == DictValues(us[u], DOMAIN us[u])
             Valid(s) == is_session_valid(s, t)
             valid_sessions == SortByLastActivityDesc(SelectSeq(all, Valid))
             lim == IF limit = Unset THEN DefaultListLimit ELSE limit[1]
         IN  SliceTo(valid_sessions, lim)

expired_ids(us, t, u) ==
    {sid \in DOMAIN us[u] : ~is_session_valid(us[u][sid], t)}

(* Variant: only the valid sessions are counted into the total. *)
get_session_stats_total_active(us, t, u) ==
    IF u \notin DOMAIN us
    THEN [total_sessions |-> 0, active_sessions |-> 0, expired_sessions |-> 0]
    ELSE LET active == Cardinality({sid \in DOMAIN us[u] :
                                      is_session_valid(us[u][sid], t)})
         IN  [total_sessions |-> active, active_sessions |-> active,
              expired_sessions |-> 0]

get_session_stats(us, t, u) ==
    IF u \notin DOMAIN us
    THEN [total_sessions |-> 0, active_sessions |-> 0, expired_sessions |-> 0]
    ELSE LET total == Cardinality(DOMAIN us[u])
             active == Cardinality({sid \in DOMAIN us[u] :
                                      is_session_valid(us[u][sid], t)})
         IN  [total_sessions |-> total, active_sessions |-> active,
              expired_sessions |-> total - active]

------------------------------------------------------------------------------
(* What a call returned: its name, its arguments and its result.           *)

Call(op, u, sid, limit, res, n, ok) ==
    [op |-> op, user |-> u, sid |-> sid, limit |-> limit,
     res |-> res, n |-> n, ok |-> ok]

NoCall == Call("none", "", 0, Unset, <<>>, 0, FALSE)

(* The same for a call on a service: whether it went upstream, what        *)
(* upstream answered, and whether the call returned or raised.             *)
Fetched(op, key, upstream, outcome, result, raised) ==
    [op |-> op, key |-> key, upstream |-> upstream, outcome |-> outcome,
     result |-> result, raised |-> raised]

NoFetch == Fetched("none", <<>>, FALSE, "none", None, FALSE)

(* The same for a call whose arguments the properties are stated with: the *)
(* city and days of a WeatherService call, the PM2.5 concentration of      *)
(* _get_aqi_from_pollutants.                                               *)
Probe(op, city, days, pm25, result) ==
    [op |-> op, city |-> city, days |-> days, pm25 |-> pm25, result |-> result]

NoProbe == Probe("none", <<>>, "", 0, <<>>)

Remove(d, ids) == [k \in DOMAIN d \ ids |-> d[k]]

(* The periodic_cleanup task.  pc: "sleeping" in asyncio.sleep, "sweeping" *)
(* in the for loop, "cancelled" once it has left the while loop.  queue:   *)
(* the user ids of list(user_sessions.keys()) the loop has yet to visit.   *)
(* The other fields are history of the latest sweep: how it ended, the     *)
(* users cleanup_expired_sessions was called for, those it raised for, and *)
(* the store and the time the sweep started with.                          *)
Sweeper(pc, queue, total_cleaned, ended, called, raised, store, started) ==
    [pc |-> pc, queue |-> queue, total_cleaned |-> total_cleaned,
     ended |-> ended, called |-> called, raised |-> raised,
     store |-> store, started |-> started]

Asleep == Sweeper("sleeping", <<>>, 0, "none", {}, {}, <<>>, 0)

(* An HTTP request.  pc: "absent" until it arrives, "pending" until its    *)
(* handler is run, "in_agent" inside weather_agent.get_weather_advice,     *)
(* "in_fetch" inside the requests.get of the agent's weather tool, "done"  *)
(* once answered.  kind, user, session_id: what was asked.  session: the   *)
(* session the handler works on.  status, message_id: the response.        *)
(* appended: the ids of the messages it has appended, in order.            *)
Request(pc, kind, u, session_id, session, status, message_id, appended, fetched) ==
    [pc |-> pc, kind |-> kind, user |-> u, session_id |-> session_id,
     session |-> session, status |-> status, message_id |-> message_id,
     appended |-> appended, fetched |-> fetched]

Absent == Request("absent", "none", "", None, 0, 0, 0, <<>>, FALSE)

NoRequests == [r \in 1..MaxRequests |-> Absent]

(* What a run has used of its budget. *)
Used == uuidSessions + uuidMessages + (now \div TickSeconds)

(* The session ids a caller passes: those handed out so far and one that   *)
(* never was.                                                              *)
SessionIds == 1..(uuidSessions + 1)

------------------------------------------------------------------------------
Init ==
    /\ user_sessions = <<>>
    /\ now = 0
    /\ uuidSessions = 0
    /\ uuidMessages = 0
    /\ last = NoCall
    /\ budget = MaxOps
    /\ cache = <<>>
    /\ aq_cache = <<>>
    /\ fetch = NoFetch
    /\ failed = {}
    /\ probe = NoProbe
    /\ user_keys = <<>>
    /\ sweeper = Asleep
    /\ requests = NoRequests
    /\ running = 0

(* Calls on the SessionManager are synchronous: one returns before the     *)
(* next is made.  last holds a call's result until its caller has taken it. *)
Idle == last = NoCall

Return ==
    /\ ~Idle
    /\ last' = NoCall
    /\ UNCHANGED <<user_sessions, now, uuidSessions, uuidMessages, budget, cacheVars, sweepVars, chatVars>>

(* The clock moves on. *)
Tick ==
    /\ Idle
    /\ Used < budget
    /\ now' = now + TickSeconds
    /\ UNCHANGED <<user_sessions, uuidSessions, uuidMessages, last, budget, cacheVars, sweepVars, chatVars>>

(* Variant: the user's sub-map is made anew at every call. *)
create_session_store_fresh_submap(us, u, session) ==
    (u :> (session.session_id :> session)) @@ us

create_session_store(us, u, session) ==
    LET sub == IF u \in DOMAIN us THEN us[u] ELSE <<>>
    IN  (u :> ((session.session_id :> session) @@ sub)) @@ us

CreateSession(u) ==
    /\ Idle
    /\ Used < budget
    /\ LET session_id == uuidSessions + 1
           session == ChatSession(session_id, now)
       IN  /\ user_sessions' = create_session_store(user_sessions, u, session)
           /\ last' = Call("create_session", u, session_id, Unset, Some(session), 0, TRUE)
    /\ user_keys' = IF u \in DOMAIN user_sessions THEN user_keys
                     ELSE Append(user_keys, u)
    /\ uuidSessions' = uuidSessions + 1
    /\ UNCHANGED <<now, uuidMessages, budget, cacheVars, sweeper, chatVars>>

GetSession(sid, u) ==
    /\ Idle
    /\ last' = Call("get_session", u, sid, Unset,
                    get_session(user_sessions, now, sid, u), 0, FALSE)
    /\ UNCHANGED <<user_sessions, now, uuidSessions, uuidMessages, budget, cacheVars, sweepVars, chatVars>>

(* Variant: the message is put at the head of the list. *)
add_message_store_prepend(us, u, sid, message, t) ==
    [us EXCEPT ![u][sid].messages = <<message>> \o @,
               ![u][sid].last_activity = isoformat(t)]

(* Variant: last_activity is left as it was. *)
add_message_store_no_touch(us, u, sid, message, t) ==
    [us EXCEPT ![u][sid].messages = Append(@, message)]

(* Variant: the list is written back from a copy taken before the other    *)
(* appends, which drops them.                                              *)
add_message_store_overwrite(us, u, sid, message, t) ==
    [us EXCEPT ![u][sid].messages = <<message>>,
               ![u][sid].last_activity = isoformat(t)]

(* Variant: last_activity is put back to the time the session was made. *)
add_message_store_backdated(us, u, sid, message, t) ==
    [us EXCEPT ![u][sid].messages = Append(@, message),
               ![u][sid].last_activity = us[u][sid].created_at]

add_message_store(us, u, sid, message, t) ==
    [us EXCEPT ![u][sid].messages = Append(@, message),
               ![u][sid].last_activity = isoformat(t)]

AddMessage(sid, role, content, u) ==
    LET session == get_session(user_sessions, now, sid, u)
    IN  IF session = None
        THEN /\ Idle
             /\ last' = Call("add_message", u, sid, Unset, None, 0, FALSE)
             /\ UNCHANGED <<user_sessions, now, uuidSessions, uuidMessages, budget, cacheVars, sweepVars, chatVars>>
        ELSE /\ Idle
             /\ Used < budget
             /\ LET message == ChatMessage(role, content, now, uuidMessages + 1)
                IN  /\ user_sessions' =
                          add_message_store(user_sessions, u, sid, message, now)
                    /\ last' = Call("add_message", u, sid, Unset, Some(message), 0, TRUE)
             /\ uuidMessages' = uuidMessages + 1
             /\ UNCHANGED <<now, uuidSessions, budget, cacheVars, sweepVars, chatVars>>

GetConversationHistory(sid, u, limit) ==
    /\ Idle
    /\ last' = Call("get_conversation_history", u, sid, limit,
                    get_conversation_history(user_sessions, now, sid, u, limit),
                    0, FALSE)
    /\ UNCHANGED <<user_sessions, now, uuidSessions, uuidMessages, budget, cacheVars, sweepVars, chatVars>>

(* Variant: the user's whole sub-map goes with the session. *)
delete_session_store_whole_user(us, u, sid) == [us EXCEPT ![u] = <<>>]

delete_session_store(us, u, sid) == [us EXCEPT ![u] = Remove(@, {sid})]

(* Variant: delete_session looks the session up with get_session first. *)
DeleteSession_valid_only(sid, u) ==
    /\ Idle
    /\ IF get_session(user_sessions, now, sid, u) # None
       THEN /\ user_sessions' = delete_session_store(user_sessions, u, sid)
            /\ last' = Call("delete_session", u, sid, Unset, <<>>, 0, TRUE)
       ELSE /\ last' = Call("delete_session", u, sid, Unset, <<>>, 0, FALSE)
            /\ UNCHANGED user_sessions
    /\ UNCHANGED <<now, uuidSessions, uuidMessages, budget, cacheVars, sweepVars, chatVars>>

DeleteSession(sid, u) ==
    /\ Idle
    /\ IF u \in DOMAIN user_sessions /\ sid \in DOMAIN user_sessions[u]
       THEN /\ user_sessions' = delete_session_store(user_sessions, u, sid)
            /\ last' = Call("delete_session", u, sid, Unset, <<>>, 0, TRUE)
       ELSE /\ last' = Call("delete_session", u, sid, Unset, <<>>, 0, FALSE)
            /\ UNCHANGED user_sessions
    /\ UNCHANGED <<now, uuidSessions, uuidMessages, budget, cacheVars, sweepVars, chatVars>>

delete_all_sessions_everyone(us, u) == [v \in DOMAIN us |-> <<>>]

delete_all_sessions_store(us, u) == [us EXCEPT ![u] = <<>>]

DeleteAllSessions(u) ==
    /\ Idle
    /\ IF u \notin DOMAIN user_sessions
       THEN /\ last' = Call("delete_all_sessions", u, 0, Unset, <<>>, 0, FALSE)
            /\ UNCHANGED user_sessions
       ELSE /\ user_sessions' = delete_all_sessions_store(user_sessions, u)
            /\ last' = Call("delete_all_sessions", u, 0, Unset, <<>>,
                            Cardinality(DOMAIN user_sessions[u]), TRUE)
    /\ UNCHANGED <<now, uuidSessions, uuidMessages, budget, cacheVars, sweepVars, chatVars>>

ListSessions(u, limit) ==
    /\ Idle
    /\ last' = Call("list_sessions", u, 0, limit,
                    list_sessions(user_sessions, now, u, limit), 0, FALSE)
    /\ UNCHANGED <<user_sessions, now, uuidSessions, uuidMessages, budget, cacheVars, sweepVars, chatVars>>

cleanup_expired_sessions_all(us, t, u) ==
    [us EXCEPT ![u] = Remove(@, DOMAIN us[u])]

cleanup_expired_sessions_store(us, t, u) ==
    [us EXCEPT ![u] = Remove(@, expired_ids(us, t, u))]

cleanup_expired_sessions_count(us, t, u) ==
    IF u \notin DOMAIN us THEN 0 ELSE Cardinality(expired_ids(us, t, u))

CleanupExpiredSessions(u) ==
    /\ Idle
    /\ IF u \notin DOMAIN user_sessions
       THEN UNCHANGED user_sessions
       ELSE user_sessions' = cleanup_expired_sessions_store(user_sessions, now, u)
    /\ last' = Call("cleanup_expired_sessions", u, 0, Unset, <<>>,
                    cleanup_expired_sessions_count(user_sessions, now, u), TRUE)
    /\ UNCHANGED <<now, uuidSessions, uuidMessages, budget, cacheVars, sweepVars, chatVars>>

GetSessionStats(u) ==
    /\ Idle
    /\ last' = Call("get_session_stats", u, 0, Unset,
                    Some(get_session_stats(user_sessions, now, u)), 0, FALSE)
    /\ UNCHANGED <<user_sessions, now, uuidSessions, uuidMessages, budget, cacheVars, sweepVars, chatVars>>

Next ==
    \/ Return
    \/ Tick
    \/ \E u \in Users : CreateSession(u)
    \/ \E u \in Users, sid \in SessionIds : GetSession(sid, u)
    \/ \E u \in Users, sid \in SessionIds, m \in MessageInputs :
          AddMessage(sid, m[1], m[2], u)
    \/ \E u \in Users, sid \in SessionIds, limit \in LimitArgs :
          GetConversationHistory(sid, u, limit)
    \/ \E u \in Users, sid \in SessionIds : DeleteSession(sid, u)
    \/ \E u \in Users : DeleteAllSessions(u)
    \/ \E u \in Users, limit \in LimitArgs : ListSessions(u, limit)
    \/ \E u \in Users : CleanupExpiredSessions(u)
    \/ \E u \in Users : GetSessionStats(u)

Spec == Init /\ [][Next]_vars

------------------------------------------------------------------------------
(* One user's conversation, grown past the default history limit: the      *)
(* same operations, called by one user for the first session id, in longer *)
(* runs.                                                                   *)
InitHistory ==
    /\ user_sessions = <<>>
    /\ now = 0
    /\ uuidSessions = 0
    /\ uuidMessages = 0
    /\ last = NoCall
    /\ budget = MaxHistoryOps
    /\ cache = <<>>
    /\ aq_cache = <<>>
    /\ fetch = NoFetch
    /\ failed = {}
    /\ probe = NoProbe
    /\ user_keys = <<>>
    /\ sweeper = Asleep
    /\ requests = NoRequests
    /\ running = 0

NextHistory ==
    \/ Return
    \/ Tick
    \/ CreateSession("u1")
    \/ AddMessage(1, "user", "hello", "u1")
    \/ \E limit \in LimitArgs : GetConversationHistory(1, "u1", limit)

SpecHistory == InitHistory /\ [][NextHistory]_vars

------------------------------------------------------------------------------
(* The response caches of WeatherService and AirQualityService.            *)

(* A cache key is text; here a sequence of tokens. *)
Cities == {"london", "paris"}
Countries == {"GB"}
WeatherKey(city) == <<city>>
AirQualityKey(city, country) ==
    IF country = None THEN <<city>> ELSE <<city, "_", country[1]>>

(* What upstream may answer with. *)
Temperatures == {20, 21}
WeatherOutcomes == {"ok", "RequestException", "KeyError", "Exception"}
AirQualityOutcomes ==
    {"ok", "RequestException", "no_coordinates", "no_data", "Exception"}

(* timedelta.seconds: the seconds field of a non-negative timedelta, which *)
(* is normalised to days, 0 <= seconds < 86400 and microseconds.           *)
timedelta_seconds(d) == d % SecondsPerDay

is_cache_valid(c, t, key, duration) ==
    IF key \notin DOMAIN c THEN FALSE
    ELSE timedelta_seconds(t - c[key].timestamp) < duration

WeatherInfo(city, temperature, t) ==
    [city |-> city, temperature |-> temperature, timestamp |-> t]

WeatherError(outcome) ==
    [error |-> IF outcome = "RequestException" THEN "Failed to fetch weather data"
               ELSE IF outcome = "KeyError" THEN "Unexpected data format"
               ELSE "Unexpected error"]

AirQualityData(city, country, t) ==
    [location |-> IF country = None THEN <<city>> ELSE <<city, ", ", country[1]>>,
     timestamp |-> isoformat(t)]

CacheEntry(data, t) == [data |-> data, timestamp |-> t]

(* Variant: what upstream's failure is answered with is cached too. *)
get_weather_data_caching_errors(c, t, city, outcome, temperature) ==
    LET key == WeatherKey(city)
        res == IF outcome = "ok" THEN WeatherInfo(city, temperature, t)
               ELSE WeatherError(outcome)
    IN  IF is_cache_valid(c, t, key, cache_duration)
        THEN [cache |-> c,
              ret |-> Fetched("get_weather_data", key, FALSE, "none",
                              Some(c[key].data), FALSE)]
        ELSE [cache |-> (key :> CacheEntry(res, t)) @@ c,
              ret |-> Fetched("get_weather_data", key, TRUE, outcome,
                              Some(res), FALSE)]

(* get_weather_data: the cache it leaves and what it returns.  Every        *)
(* failure is caught and returned as an {"error": ...} dictionary.          *)
get_weather_data(c, t, city, outcome, temperature) ==
    LET key == WeatherKey(city)
    IN  IF is_cache_valid(c, t, key, cache_duration)
        THEN [cache |-> c,
              ret |-> Fetched("get_weather_data", key, FALSE, "none",
                              Some(c[key].data), FALSE)]
        ELSE IF outcome = "ok"
        THEN LET weather_info == WeatherInfo(city, temperature, t)
             IN  [cache |-> (key :> CacheEntry(weather_info, t)) @@ c,
                  ret |-> Fetched("get_weather_data", key, TRUE, outcome,
                                  Some(weather_info), FALSE)]
        ELSE [cache |-> c,
              ret |-> Fetched("get_weather_data", key, TRUE, outcome,
                              Some(WeatherError(outcome)), FALSE)]

(* Variant: a failure empties the cache. *)
get_air_quality_data_dropping_cache(c, t, city, country, outcome) ==
    LET cache_key == AirQualityKey(city, country)
    IN  IF is_cache_valid(c, t, cache_key, aq_cache_duration)
        THEN [cache |-> c,
              ret |-> Fetched("get_air_quality_data", cache_key, FALSE, "none",
                              Some(c[cache_key].data), FALSE)]
        ELSE IF outcome = "ok"
        THEN LET air_quality_data == AirQualityData(city, country, t)
             IN  [cache |-> (cache_key :> CacheEntry(air_quality_data, t)) @@ c,
                  ret |-> Fetched("get_air_quality_data", cache_key, TRUE,
                                  outcome, Some(air_quality_data), FALSE)]
        ELSE [cache |-> <<>>,
              ret |-> Fetched("get_air_quality_data", cache_key, TRUE, outcome,
                              None, FALSE)]

(* get_air_quality_data: every failure is caught, or met by an early        *)
(* return, and None is returned.                                            *)
get_air_quality_data(c, t, city, country, outcome) ==
    LET cache_key == AirQualityKey(city, country)
    IN  IF is_cache_valid(c, t, cache_key, aq_cache_duration)
        THEN [cache |-> c,
              ret |-> Fetched("get_air_quality_data", cache_key, FALSE, "none",
                              Some(c[cache_key].data), FALSE)]
        ELSE IF outcome = "ok"
        THEN LET air_quality_data == AirQualityData(city, country, t)
             IN  [cache |-> (cache_key :> CacheEntry(air_quality_data, t)) @@ c,
                  ret |-> Fetched("get_air_quality_data", cache_key, TRUE,
                                  outcome, Some(air_quality_data), FALSE)]
        ELSE [cache |-> c,
              ret |-> Fetched("get_air_quality_data", cache_key, TRUE, outcome,
                              None, FALSE)]

(* History: after a fetch for a key, whether it failed upstream. *)
FailedAfter(f, ret) ==
    LET k == <<ret.op, ret.key>>
    IN  IF ret.upstream /\ ret.outcome # "ok" THEN f \cup {k} ELSE f \ {k}

(* The instants the services' clock takes: around each cache's lifetime,   *)
(* on each day.                                                            *)
Offsets == {0, cache_duration - 1, cache_duration, aq_cache_duration}
Instants == {d * SecondsPerDay + o : d \in 0..MaxDays, o \in Offsets}

InitCache ==
    /\ user_sessions = <<>>
    /\ now = 0
    /\ uuidSessions = 0
    /\ uuidMessages = 0
    /\ last = NoCall
    /\ budget = 0
    /\ cache = <<>>
    /\ aq_cache = <<>>
    /\ fetch = NoFetch
    /\ failed = {}
    /\ probe = NoProbe
    /\ user_keys = <<>>
    /\ sweeper = Asleep
    /\ requests = NoRequests
    /\ running = 0

FetchIdle == fetch = NoFetch

FetchReturn ==
    /\ ~FetchIdle
    /\ fetch' = NoFetch
    /\ UNCHANGED <<now, storeVars, cache, aq_cache, failed, probe>>

CacheTick ==
    /\ FetchIdle
    /\ \E t \in Instants : t > now /\ now' = t
    /\ UNCHANGED <<storeVars, cacheVars>>

GetWeatherData(city, outcome, temperature) ==
    /\ FetchIdle
    /\ LET r == get_weather_data(cache, now, city, outcome, temperature)
       IN  /\ cache' = r.cache
           /\ fetch' = r.ret
           /\ failed' = FailedAfter(failed, r.ret)
    /\ UNCHANGED <<now, storeVars, aq_cache, probe>>

GetAirQualityData(city, country, outcome) ==
    /\ FetchIdle
    /\ LET r == get_air_quality_data(aq_cache, now, city, country, outcome)
       IN  /\ aq_cache' = r.cache
           /\ fetch' = r.ret
           /\ failed' = FailedAfter(failed, r.ret)
    /\ UNCHANGED <<now, storeVars, cache, probe>>

NextCache ==
    \/ FetchReturn
    \/ CacheTick
    \/ \E city \in Cities, outcome \in WeatherOutcomes, temp \in Temperatures :
          GetWeatherData(city, outcome, temp)
    \/ \E outcome \in AirQualityOutcomes :
          GetAirQualityData("london", Some("GB"), outcome)

SpecCache == InitCache /\ [][NextCache]_vars

------------------------------------------------------------------------------
(* periodic_cleanup (server/main.py), the task that sweeps the store.      *)
(* Every handler of main.py is a coroutine that calls the SessionManager   *)
(* without awaiting in between, and so is the body of the for loop: on the *)
(* one event loop a sweep runs from its first user to its last with no     *)
(* call of a handler in between.  asyncio.sleep(3600) is timed by the      *)
(* event loop's monotonic clock, which the model does not relate to        *)
(* datetime.now(): the sleep returns at some later step.                   *)

(* Variant: the last of the keys is left out. *)
known_user_ids_but_last(keys) == SubSeq(keys, 1, Len(keys) - 1)

(* list(session_manager.user_sessions.keys()) *)
known_user_ids(keys) == keys

InitSweep ==
    /\ user_sessions = <<>>
    /\ now = 0
    /\ uuidSessions = 0
    /\ uuidMessages = 0
    /\ last = NoCall
    /\ budget = MaxSweepOps
    /\ cache = <<>>
    /\ aq_cache = <<>>
    /\ fetch = NoFetch
    /\ failed = {}
    /\ probe = NoProbe
    /\ user_keys = <<>>
    /\ sweeper = Asleep
    /\ requests = NoRequests
    /\ running = 0

sweepFrame ==
    <<now, uuidSessions, uuidMessages, last, budget, cacheVars, user_keys, chatVars>>

(* await asyncio.sleep(3600) returns; the for loop is entered. *)
SweepSleepReturns ==
    /\ sweeper.pc = "sleeping"
    /\ Idle
    /\ sweeper' = Sweeper("sweeping", known_user_ids(user_keys), 0, "running",
                          {}, {}, user_sessions, now)
    /\ UNCHANGED <<user_sessions, sweepFrame>>

(* One turn of the for loop: cleanup_expired_sessions(user_id) returns. *)
SweepUser ==
    /\ sweeper.pc = "sweeping"
    /\ sweeper.queue # <<>>
    /\ LET user_id == Head(sweeper.queue)
           cleaned_count ==
               cleanup_expired_sessions_count(user_sessions, now, user_id)
       IN  /\ user_sessions' =
                 IF user_id \notin DOMAIN user_sessions THEN user_sessions
                 ELSE cleanup_expired_sessions_store(user_sessions, now, user_id)
           /\ sweeper' = [sweeper EXCEPT
                             !.queue = Tail(@),
                             !.total_cleaned = @ + cleaned_count,
                             !.called = @ \cup {user_id}]
    /\ UNCHANGED sweepFrame

(* One turn of the for loop in which cleanup_expired_sessions(user_id)     *)
(* raises: control leaves the for loop for `except Exception`, which       *)
(* prints, and the while loop goes back to sleep.                          *)
SweepUserRaises ==
    /\ sweeper.pc = "sweeping"
    /\ sweeper.queue # <<>>
    /\ LET user_id == Head(sweeper.queue)
       IN  sweeper' = [sweeper EXCEPT
                          !.pc = "sleeping",
                          !.queue = <<>>,
                          !.ended = "raised",
                          !.called = @ \cup {user_id},
                          !.raised = @ \cup {user_id}]
    /\ UNCHANGED <<user_sessions, sweepFrame>>

(* The for loop is through: the total is printed if positive, and the      *)
(* while loop goes back to sleep.                                          *)
SweepDone ==
    /\ sweeper.pc = "sweeping"
    /\ sweeper.queue = <<>>
    /\ sweeper' = [sweeper EXCEPT !.pc = "sleeping", !.ended = "completed"]
    /\ UNCHANGED <<user_sessions, sweepFrame>>

(* Variant: the cancellation is taken wherever the task is, as it would be *)
(* if the for loop awaited.                                                *)
SweepCancel_mid_sweep ==
    /\ sweeper.pc \in {"sleeping", "sweeping"}
    /\ sweeper' = [sweeper EXCEPT !.pc = "cancelled", !.queue = <<>>]
    /\ UNCHANGED <<user_sessions, sweepFrame>>

(* lifespan's cleanup_task.cancel(): CancelledError is raised in the       *)
(* sleep, and `except asyncio.CancelledError: break` ends the task.        *)
SweepCancel ==
    /\ sweeper.pc = "sleeping"
    /\ sweeper' = [sweeper EXCEPT !.pc = "cancelled", !.queue = <<>>]
    /\ UNCHANGED <<user_sessions, sweepFrame>>

(* What the handlers do to the store between sweeps. *)
SweepStoreOps ==
    /\ sweeper.pc # "sweeping"
    /\ \/ Return
       \/ Tick
       \/ \E u \in Users : CreateSession(u)
       \/ \E u \in Users, sid \in SessionIds : AddMessage(sid, "user", "hello", u)

NextSweep ==
    \/ SweepStoreOps
    \/ SweepSleepReturns
    \/ SweepUser
    \/ SweepDone
    \/ SweepCancel

(* The event loop runs what is ready in turn: a sleep that is over returns *)
(* however often handlers run (strong fairness: a handler's call holds the *)
(* loop only until it returns), and code that does not await runs on.      *)
SweepFairness ==
    /\ SF_vars(SweepSleepReturns)
    /\ WF_vars(SweepUser)
    /\ WF_vars(SweepDone)
    /\ WF_vars(Return)

SpecSweep == InitSweep /\ [][NextSweep]_vars /\ SweepFairness

(* The same, cleanup_expired_sessions being made to fail. *)
NextSweepFault == NextSweep \/ SweepUserRaises

SpecSweepFault == InitSweep /\ [][NextSweepFault]_vars /\ SweepFairness

------------------------------------------------------------------------------
(* The chat endpoints of server/main.py on the one event loop.  A handler  *)
(* is a coroutine; it holds the loop from the step it is run at until it   *)
(* returns or awaits.  send_chat_message never awaits: it calls the        *)
(* SessionManager and weather_agent.get_weather_advice as plain functions. *)

(* What requests carry: the message sent, the agent's reply and the city   *)
(* the agent's weather tool is asked for.                                  *)
ChatText == "hello"
ReplyText == "hi"
ToolCity == "london"
ToolTemperature == 20
ToolOutcomes == {"ok", "RequestException"}
RequestKinds == {"send", "delete"}
ChatUsers == {"u1"}
(* The session ids a client sends: those it was given and one (0) that is  *)
(* never handed out.                                                       *)
ChatSessionIds == 0..uuidSessions

InitChat ==
    /\ user_sessions = <<>>
    /\ now = 0
    /\ uuidSessions = 0
    /\ uuidMessages = 0
    /\ last = NoCall
    /\ budget = 0
    /\ cache = <<>>
    /\ aq_cache = <<>>
    /\ fetch = NoFetch
    /\ failed = {}
    /\ probe = NoProbe
    /\ user_keys = <<>>
    /\ sweeper = Asleep
    /\ requests = NoRequests
    /\ running = 0

(* No coroutine holds the event loop. *)
LoopFree == running = 0 /\ sweeper.pc # "sweeping"

(* A request arrives (requests are numbered in the order they arrive). *)
Arrive(r, kind, u, session_id) ==
    /\ requests[r].pc = "absent"
    /\ r > 1 => requests[r - 1].pc # "absent"
    /\ kind = "delete" => session_id # None
    /\ requests' = [requests EXCEPT ![r] =
                       Request("pending", kind, u, session_id, 0, 0, 0, <<>>, FALSE)]
    /\ UNCHANGED <<user_sessions, now, uuidSessions, uuidMessages, last, budget,
                   cacheVars, sweepVars, running>>

(* send_chat_message up to its call of get_weather_advice: the session is  *)
(* looked up or created, the user message is added, the history is read.   *)
(* status: 404 and 500 are the HTTPExceptions raised, 0 is none.           *)
send_chat_message_begin(us, t, req, new_session_id, new_message_id) ==
    LET u == req.user
        found == IF req.session_id = None THEN None
                 ELSE get_session(us, t, req.session_id[1], u)
    IN  IF req.session_id # None /\ found = None
        THEN [status |-> 404, store |-> us, session |-> 0, created |-> FALSE,
              appended |-> <<>>]
        ELSE LET created == req.session_id = None
                 session == IF created THEN ChatSession(new_session_id, t)
                            ELSE found[1]
                 store == IF created THEN create_session_store(us, u, session)
                          ELSE us
                 sid == session.session_id
                 message == ChatMessage("user", ChatText, t, new_message_id)
             IN  IF get_session(store, t, sid, u) = None
                 THEN [status |-> 500, store |-> store, session |-> sid,
                       created |-> created, appended |-> <<>>]
                 ELSE [status |-> 0,
                       store |-> add_message_store(store, u, sid, message, t),
                       session |-> sid, created |-> created,
                       appended |-> <<new_message_id>>]

ServeSend(r) ==
    /\ LoopFree
    /\ requests[r].pc = "pending"
    /\ requests[r].kind = "send"
    /\ LET req == requests[r]
           b == send_chat_message_begin(user_sessions, now, req,
                                        uuidSessions + 1, uuidMessages + 1)
       IN  /\ user_sessions' = b.store
           /\ uuidSessions' = IF b.created THEN uuidSessions + 1 ELSE uuidSessions
           /\ uuidMessages' = uuidMessages + Len(b.appended)
           /\ user_keys' = IF b.created /\ req.user \notin DOMAIN user_sessions
                           THEN Append(user_keys, req.user) ELSE user_keys
           /\ requests' = [requests EXCEPT ![r] =
                  [req EXCEPT !.pc = IF b.status = 0 THEN "in_agent" ELSE "done",
                              !.session = b.session,
                              !.status = b.status,
                              !.appended = b.appended]]
           /\ running' = IF b.status = 0 THEN r ELSE 0
    /\ UNCHANGED <<now, last, budget, cacheVars, sweeper>>

(* Inside get_weather_advice: the agent's weather tool calls                *)
(* weather_service.get_weather_data(city), which answers from the cache or *)
(* goes into requests.get.                                                 *)
AgentCallsTool(r) ==
    /\ running = r
    /\ requests[r].pc = "in_agent"
    /\ ~requests[r].fetched
    /\ requests' = [requests EXCEPT
          ![r].pc = IF is_cache_valid(cache, now, WeatherKey(ToolCity), cache_duration)
                    THEN "in_agent" ELSE "in_fetch",
          ![r].fetched = TRUE]
    /\ UNCHANGED <<user_sessions, now, uuidSessions, uuidMessages, last, budget,
                   cacheVars, sweepVars, running>>

(* requests.get(..., timeout=10) is over: get_weather_data caches what it  *)
(* got, or returns the error.                                              *)
ToolReturns(r, outcome) ==
    /\ running = r
    /\ requests[r].pc = "in_fetch"
    /\ cache' = get_weather_data(cache, now, ToolCity, outcome, ToolTemperature).cache
    /\ requests' = [requests EXCEPT ![r].pc = "in_agent"]
    /\ UNCHANGED <<user_sessions, now, uuidSessions, uuidMessages, last, budget,
                   aq_cache, fetch, failed, probe, sweepVars, running>>

(* send_chat_message from the return of get_weather_advice (which catches  *)
(* every Exception and returns text) on: the reply is added and the        *)
(* ChatResponse built.  When add_message returns None,                     *)
(* ai_message.message_id raises AttributeError, which `except Exception`   *)
(* turns into HTTPException(500).                                          *)
send_chat_message_end(us, t, req, new_message_id) ==
    LET u == req.user
        sid == req.session
        message == ChatMessage("assistant", ReplyText, t, new_message_id)
    IN  IF get_session(us, t, sid, u) = None
        THEN [status |-> 500, store |-> us, message_id |-> 0, appended |-> <<>>]
        ELSE [status |-> 200, store |-> add_message_store(us, u, sid, message, t),
              message_id |-> new_message_id, appended |-> <<new_message_id>>]

FinishSend(r) ==
    /\ running = r
    /\ requests[r].pc = "in_agent"
    /\ LET req == requests[r]
           e == send_chat_message_end(user_sessions, now, req, uuidMessages + 1)
       IN  /\ user_sessions' = e.store
           /\ uuidMessages' = uuidMessages + Len(e.appended)
           /\ requests' = [requests EXCEPT ![r] =
                  [req EXCEPT !.pc = "done",
                              !.status = e.status,
                              !.message_id = e.message_id,
                              !.appended = @ \o e.appended]]
    /\ running' = 0
    /\ UNCHANGED <<now, uuidSessions, last, budget, cacheVars, sweepVars>>

(* The delete_session endpoint: 404 when delete_session returns False. *)
ServeDelete(r) ==
    /\ LoopFree
    /\ requests[r].pc = "pending"
    /\ requests[r].kind = "delete"
    /\ LET req == requests[r]
           sid == req.session_id[1]
           success == /\ req.user \in DOMAIN user_sessions
                      /\ sid \in DOMAIN user_sessions[req.user]
       IN  /\ user_sessions' = IF success
                               THEN delete_session_store(user_sessions, req.user, sid)
                               ELSE user_sessions
           /\ requests' = [requests EXCEPT ![r] =
                  [req EXCEPT !.pc = "done", !.session = sid,
                              !.status = IF success THEN 200 ELSE 404]]
    /\ UNCHANGED <<now, uuidSessions, uuidMessages, last, budget, cacheVars,
                   sweepVars, running>>

(* The clock moves on.  It does not while a handler is inside requests.get, *)
(* which times out after 10 seconds; get_weather_advice as a whole has no  *)
(* timeout.                                                                *)
ChatTick ==
    /\ now < MaxChatTicks * TickSeconds
    /\ \A r \in 1..MaxRequests : requests[r].pc # "in_fetch"
    /\ now' = now + TickSeconds
    /\ UNCHANGED <<storeVars, cacheVars>>

(* The cleanup task gets the loop when no handler holds it. *)
ChatSweeperStep ==
    /\ running = 0
    /\ \/ SweepSleepReturns
       \/ SweepUser
       \/ SweepDone

NextChat ==
    \/ \E r \in 1..MaxRequests, kind \in RequestKinds, u \in ChatUsers,
          session_id \in {None} \cup {Some(sid) : sid \in ChatSessionIds} :
          Arrive(r, kind, u, session_id)
    \/ \E r \in 1..MaxRequests : ServeSend(r)
    \/ \E r \in 1..MaxRequests : FinishSend(r)
    \/ \E r \in 1..MaxRequests : ServeDelete(r)
    \/ ChatTick
    \/ ChatSweeperStep

SpecChat == InitChat /\ [][NextChat]_vars

(* The same, with what the agent's weather tool does inside                *)
(* get_weather_advice.                                                     *)
NextChatFetch ==
    \/ NextChat
    \/ \E r \in 1..MaxRequests : AgentCallsTool(r)
    \/ \E r \in 1..MaxRequests, outcome \in ToolOutcomes : ToolReturns(r, outcome)

SpecChatFetch == InitChat /\ [][NextChatFetch]_vars

------------------------------------------------------------------------------
(* AirQualityService._get_aqi_from_pollutants.                             *)
(* A concentration is a float; here a whole number of twentieths of a      *)
(* microgram per cubic metre, and the arithmetic is exact.                 *)
Pm25PerUnit == 20

(* int(num / den) for den > 0: the quotient, truncated towards zero. *)
int(num, den) == IF num >= 0 THEN num \div den ELSE -((-num) \div den)

(* int(((pm25 - c_lo) / (c_hi - c_lo)) * (i_hi - i_lo) + i_lo), with the   *)
(* breakpoints c_lo and c_hi in tenths.                                    *)
Interpolate(pm25, c_lo, c_hi, i_lo, i_hi) ==
    LET den == (c_hi - c_lo) * (Pm25PerUnit \div 10)
        num == (pm25 - c_lo * (Pm25PerUnit \div 10)) * (i_hi - i_lo)
    IN  int(num + i_lo * den, den)

AtMost(pm25, tenths) == pm25 <= tenths * (Pm25PerUnit \div 10)

get_aqi_from_pollutants(pm25) ==
    IF AtMost(pm25, 120) THEN int(pm25 * 50, 12 * Pm25PerUnit)
    ELSE IF AtMost(pm25, 354) THEN Interpolate(pm25, 121, 354, 51, 100)
    ELSE IF AtMost(pm25, 554) THEN Interpolate(pm25, 355, 554, 101, 150)
    ELSE IF AtMost(pm25, 1504) THEN Interpolate(pm25, 555, 1504, 151, 200)
    ELSE IF AtMost(pm25, 2504) THEN Interpolate(pm25, 1505, 2504, 201, 300)
    ELSE IF AtMost(pm25, 3504) THEN Interpolate(pm25, 2505, 3504, 301, 400)
    ELSE IF AtMost(pm25, 5004) THEN Interpolate(pm25, 3505, 5004, 401, 500)
    ELSE 500

(* The concentrations the function is called with: 0.00 up to MaxPm25. *)
Pm25Inputs == 0..(MaxPm25 * Pm25PerUnit)

ProbeIdle == probe.op = "none"

ProbeReturn ==
    /\ ~ProbeIdle
    /\ probe' = NoProbe
    /\ UNCHANGED <<now, storeVars, cache, aq_cache, fetch, failed>>

GetAqiFromPollutants(pm25) ==
    /\ ProbeIdle
    /\ probe' = Probe("_get_aqi_from_pollutants", <<>>, "", pm25,
                      Some(get_aqi_from_pollutants(pm25)))
    /\ UNCHANGED <<now, storeVars, cache, aq_cache, fetch, failed>>

NextAqi ==
    \/ ProbeReturn
    \/ \E pm25 \in Pm25Inputs : GetAqiFromPollutants(pm25)

SpecAqi == InitCache /\ [][NextAqi]_vars

------------------------------------------------------------------------------
(* The one cache of WeatherService, as its four operations key it.         *)
(* A key is text; here the sequence of the pieces it is put together from, *)
(* so that f"{city}_forecast_{days}" is city \o <<"_forecast_", days>>.    *)
Kinds == {"current", "forecast", "historical", "extended"}
KeyCities == {<<"paris">>, <<"paris", "_forecast_", "5">>}
DayArgs == {"5"}
KindOutcomes == {"ok", "RequestException"}

CacheKey(kind, city, days) ==
    IF kind = "current" THEN city
    ELSE IF kind = "forecast" THEN city \o <<"_forecast_", days>>
    ELSE IF kind = "historical" THEN city \o <<"_historical_", days>>
    ELSE city \o <<"_extended_", days>>

(* What an operation builds from upstream's answer to the request for      *)
(* (kind, city, days), and the {"error": ...} dictionary.                  *)
Response(kind, city, days) == [kind |-> kind, city |-> city, days |-> days]
ErrorResponse == Response("error", <<>>, "")

(* get_weather_data, get_forecast_data, get_historical_weather and         *)
(* get_extended_forecast: the cache each leaves and what it returns.       *)
(* get_historical_weather builds its data from get_weather_data(city) and  *)
(* returns an error when that has none of the fields of current weather.   *)
get_kind_data(c, t, kind, city, days, outcome) ==
    LET cache_key == CacheKey(kind, city, days)
        own == Response(kind, city, days)
        hit == is_cache_valid(c, t, city, cache_duration)
        current_weather == IF hit THEN c[city].data
                           ELSE IF outcome = "ok" THEN Response("current", city, "")
                           ELSE ErrorResponse
        c1 == IF ~hit /\ outcome = "ok"
              THEN (city :> CacheEntry(current_weather, t)) @@ c ELSE c
    IN  IF is_cache_valid(c, t, cache_key, cache_duration)
        THEN [cache |-> c, ret |-> c[cache_key].data]
        ELSE IF kind = "historical"
        THEN IF current_weather.kind = "current"
             THEN [cache |-> (cache_key :> CacheEntry(own, t)) @@ c1, ret |-> own]
             ELSE [cache |-> c1, ret |-> ErrorResponse]
        ELSE IF outcome = "ok"
        THEN [cache |-> (cache_key :> CacheEntry(own, t)) @@ c, ret |-> own]
        ELSE [cache |-> c, ret |-> ErrorResponse]

GetKindData(kind, city, days, outcome) ==
    /\ ProbeIdle
    /\ LET r == get_kind_data(cache, now, kind, city, days, outcome)
       IN  /\ cache' = r.cache
           /\ probe' = Probe(kind, city, days, 0, Some(r.ret))
    /\ UNCHANGED <<now, storeVars, aq_cache, fetch, failed>>

KindTick ==
    /\ ProbeIdle
    /\ now < MaxKindTicks * cache_duration
    /\ now' = now + cache_duration
    /\ UNCHANGED <<storeVars, cacheVars>>

NextKinds ==
    \/ ProbeReturn
    \/ KindTick
    \/ \E kind \in Kinds, city \in KeyCities, days \in DayArgs,
          outcome \in KindOutcomes :
          GetKindData(kind, city, IF kind = "current" THEN "" ELSE days, outcome)

SpecKinds == InitCache /\ [][NextKinds]_vars

------------------------------------------------------------------------------
(* Notions the properties below are stated with. *)

Stored(us, u, sid) == u \in DOMAIN us /\ sid \in DOMAIN us[u]

SessionsOf(us, u) == IF u \in DOMAIN us THEN DOMAIN us[u] ELSE {}

(* The age of a session's last activity at time t. *)
Age(session, t) == t - fromisoformat(session.last_activity)

Expired(session, t) == Age(session, t) >= session_timeout

MessageIds(session) == {session.messages[i].message_id : i \in 1..Len(session.messages)}

(* A user's sessions are left exactly as they were by a step. *)
Untouched(u) ==
    /\ u \in DOMAIN user_sessions <=> u \in DOMAIN user_sessions'
    /\ u \in DOMAIN user_sessions => user_sessions'[u] = user_sessions[u]

------------------------------------------------------------------------------
------------------------------------------------------------------------------
(* C2. Right after a successful add_message on a session,                  *)
(* get_conversation_history of that session with limit=1 returns the       *)
(* one-element sequence holding exactly the message add_message returned.  *)
C2_AddThenHistoryOne ==
    (last.op = "add_message" /\ last.res # None) =>
       get_conversation_history(user_sessions, now, last.sid, last.user, <<1>>)
          = <<last.res[1]>>

(* add_message has returned the second message of a session. *)
C2_Witness ==
    /\ last.op = "add_message"
    /\ last.res # None
    /\ Len(user_sessions[last.user][last.sid].messages) >= 2
    /\ user_sessions[last.user][last.sid].messages[1] # last.res[1]

------------------------------------------------------------------------------
(* C3. A session is visible iff now - last_activity < 24 hours.  A stored  *)
(* session whose age is 24 hours or more is not returned by get_session,   *)
(* is not in what list_sessions returns, and is counted as expired by      *)
(* get_session_stats, while a stored session younger than that is          *)
(* returned, listed (when the limit allows) and counted as active; none of *)
(* this needs cleanup_expired_sessions to have run.                        *)
C3_VisibleIffYoungerThanTimeout ==
    LET u == last.user
        live == {sid \in SessionsOf(user_sessions, u) :
                    now - fromisoformat(user_sessions[u][sid].last_activity)
                       < session_timeout}
        old == SessionsOf(user_sessions, u) \ live
    IN  /\ last.op = "get_session" =>
              /\ last.sid \in live => last.res = Some(user_sessions[u][last.sid])
              /\ last.sid \notin live => last.res = None
        /\ last.op = "list_sessions" =>
              /\ \A i \in 1..Len(last.res) : last.res[i].session_id \in live
              /\ last.limit = Unset =>
                    {last.res[i].session_id : i \in 1..Len(last.res)} = live
        /\ last.op = "get_session_stats" =>
              /\ last.res[1].expired_sessions = Cardinality(old)
              /\ last.res[1].active_sessions = Cardinality(live)

(* A session exactly 24 hours old is still stored, and get_session has     *)
(* returned None for it.                                                   *)
C3_Witness ==
    /\ last.op = "get_session"
    /\ Stored(user_sessions, last.user, last.sid)
    /\ Age(user_sessions[last.user][last.sid], now) = session_timeout
    /\ last.res = None

------------------------------------------------------------------------------
(* C4. cleanup_expired_sessions(user_id) at time t removes exactly the     *)
(* sessions of that user that are expired at t, leaves that user's other   *)
(* sessions and every other user's sessions as they were, returns the      *)
(* number it removed, and called again at t returns 0 and changes nothing. *)
C4_CleanupRemovesExactlyExpired ==
    [][last'.op = "cleanup_expired_sessions" =>
          LET u == last'.user
              gone == {sid \in SessionsOf(user_sessions, u) :
                          Expired(user_sessions[u][sid], now)}
          IN  /\ SessionsOf(user_sessions', u) = SessionsOf(user_sessions, u) \ gone
              /\ \A sid \in SessionsOf(user_sessions', u) :
                    user_sessions'[u][sid] = user_sessions[u][sid]
              /\ \A v \in Users \ {u} : Untouched(v)
              /\ last'.n = Cardinality(gone)
              /\ now' = now
              /\ cleanup_expired_sessions_count(user_sessions', now', u) = 0
              /\ u \in DOMAIN user_sessions' =>
                    cleanup_expired_sessions_store(user_sessions', now', u)
                       = user_sessions'
      ]_vars

(* A cleanup removed an expired session and kept a live one of the same user. *)
C4_Witness ==
    /\ last.op = "cleanup_expired_sessions"
    /\ last.n > 0
    /\ SessionsOf(user_sessions, last.user) # {}

------------------------------------------------------------------------------
(* C9. delete_all_sessions(user_id) removes every session stored under     *)
(* user_id, returns how many there were, and leaves the sessions of every  *)
(* other user as they were, so that get_session still returns them.        *)
C9_DeleteAllOnlyThatUser ==
    [][last'.op = "delete_all_sessions" =>
          LET u == last'.user
          IN  /\ SessionsOf(user_sessions', u) = {}
              /\ last'.n = Cardinality(SessionsOf(user_sessions, u))
              /\ \A v \in Users \ {u} :
                    /\ Untouched(v)
                    /\ \A sid \in SessionsOf(user_sessions, v) :
                          get_session(user_sessions', now', sid, v)
                             = get_session(user_sessions, now, sid, v)
      ]_vars

(* The scenario: one user had 3 sessions and another 1; delete_all_sessions *)
(* for the first returned 3 and get_session still returns the other's.     *)
C9_Witness ==
    /\ last.op = "delete_all_sessions"
    /\ last.n = 3
    /\ \E v \in Users \ {last.user} :
          /\ Cardinality(SessionsOf(user_sessions, v)) = 1
          /\ \A sid \in SessionsOf(user_sessions, v) :
                get_session(user_sessions, now, sid, v)
                   = Some(user_sessions[v][sid])

------------------------------------------------------------------------------
(* What get_conversation_history is to return for a session: nothing when  *)
(* the session is not stored under the user or is expired; else its last   *)
(* `limit` messages, in insertion order, for limit > 0, and all of them    *)
(* for limit = 0.  whenUnset is what it returns when no limit is supplied. *)
LastMessages(msgs, k) ==
    [i \in 1..Min(k, Len(msgs)) |-> msgs[Len(msgs) - Min(k, Len(msgs)) + i]]

HistoryAsClaimed(call, whenUnset(_)) ==
    LET u == call.user
        sid == call.sid
    IN  IF ~Stored(user_sessions, u, sid) \/ Expired(user_sessions[u][sid], now)
        THEN call.res = <<>>
        ELSE LET msgs == user_sessions[u][sid].messages
             IN  IF call.limit = Unset THEN call.res = whenUnset(msgs)
                 ELSE IF call.limit[1] > 0
                      THEN call.res = LastMessages(msgs, call.limit[1])
                      ELSE call.limit[1] = 0 => call.res = msgs

(* C10, as claimed. get_conversation_history returns the last `limit`      *)
(* messages in insertion order when limit > 0, all messages when limit is  *)
(* zero or not supplied, and the empty sequence when the session is absent *)
(* or expired.                                                             *)
C10_HistoryUnsetIsAll ==
    LET All(msgs) == msgs
    IN  last.op = "get_conversation_history" => HistoryAsClaimed(last, All)

(* C10, amended. As above, but a limit that is not supplied is the default *)
(* of 10: the last 10 messages are returned, which is all of them only     *)
(* while the session has at most 10.                                       *)
C10_HistoryUnsetIsLastTen ==
    LET LastTen(msgs) == LastMessages(msgs, DefaultHistoryLimit)
    IN  last.op = "get_conversation_history" => HistoryAsClaimed(last, LastTen)

(* get_conversation_history was called without a limit on a live session   *)
(* that holds more than 10 messages.                                       *)
C10_Witness ==
    /\ last.op = "get_conversation_history"
    /\ last.limit = Unset
    /\ Stored(user_sessions, last.user, last.sid)
    /\ ~Expired(user_sessions[last.user][last.sid], now)
    /\ Len(user_sessions[last.user][last.sid].messages) > DefaultHistoryLimit
    /\ Len(last.res) = DefaultHistoryLimit

------------------------------------------------------------------------------
(* The response caches: notions the properties are stated with.            *)

(* A step in which a service is called. *)
FetchStep == fetch = NoFetch /\ fetch' # NoFetch

(* The cache and the lifetime the call of fetch' uses. *)
CacheOf(f) == IF f.op = "get_weather_data" THEN cache ELSE aq_cache
CacheOfNext(f) == IF f.op = "get_weather_data" THEN cache' ELSE aq_cache'
TtlOf(f) == IF f.op = "get_weather_data" THEN cache_duration ELSE aq_cache_duration

(* An entry exists for the key and is younger than the ttl. *)
Fresh(c, t, key, ttl) == key \in DOMAIN c /\ t - c[key].timestamp < ttl

UpstreamFailed(f) == f.upstream /\ f.outcome # "ok"

------------------------------------------------------------------------------
(* C5. Response-cache validity: a lookup treats the entry for a key as     *)
(* valid (returns it, without going upstream) iff an entry exists and      *)
(* now - inserted_at < ttl, with ttl 300 s for weather and 600 s for air   *)
(* quality; an entry is invalid at age ttl and at every later time.        *)
C5_ValidIffYoungerThanTtl ==
    [][FetchStep =>
          (~fetch'.upstream <=>
              Fresh(CacheOf(fetch'), now, fetch'.key, TtlOf(fetch')))
      ]_vars

------------------------------------------------------------------------------
(* C6. A failed upstream fetch is never cached: a fetch that fails         *)
(* upstream leaves the caches as they were; the next fetch for the same    *)
(* key goes upstream again; and a fetch that succeeds upstream leaves its  *)
(* result in the cache, inserted now.                                      *)
C6_FailedFetchNotCached ==
    [][FetchStep =>
          /\ UpstreamFailed(fetch') => cache' = cache /\ aq_cache' = aq_cache
          /\ <<fetch'.op, fetch'.key>> \in failed => fetch'.upstream
          /\ (fetch'.upstream /\ fetch'.outcome = "ok") =>
                /\ fetch'.key \in DOMAIN CacheOfNext(fetch')
                /\ CacheOfNext(fetch')[fetch'.key]
                      = CacheEntry(fetch'.result[1], now)
      ]_vars

------------------------------------------------------------------------------
(* C7, as claimed. When the upstream fetch inside a caching operation      *)
(* fails, the failure reaches the operation's caller as an error: the      *)
(* operation raises.                                                       *)
C7_FailureIsRaised == UpstreamFailed(fetch) => fetch.raised

(* C7, amended. When the upstream fetch inside a caching operation fails,  *)
(* the operation catches the failure and returns it to its caller as a     *)
(* value, raising nothing: get_weather_data returns an {"error": message}  *)
(* dictionary that names the failure, get_air_quality_data returns None;   *)
(* and the failure is never cached.                                        *)
C7_FailureIsReturnedNotCached ==
    [][(FetchStep /\ UpstreamFailed(fetch')) =>
          /\ ~fetch'.raised
          /\ fetch'.op = "get_weather_data" =>
                fetch'.result = Some(WeatherError(fetch'.outcome))
          /\ fetch'.op = "get_air_quality_data" => fetch'.result = None
          /\ cache' = cache
          /\ aq_cache' = aq_cache
      ]_vars

(* get_weather_data went upstream for a key that has an old entry, and     *)
(* upstream failed.                                                        *)
C7_Witness ==
    /\ fetch.op = "get_weather_data"
    /\ UpstreamFailed(fetch)
    /\ fetch.key \in DOMAIN cache

------------------------------------------------------------------------------
(* C8. Memoization: if an entry younger than the ttl exists for the key, a *)
(* fetch returns the cached value, does not go upstream and leaves the     *)
(* cache as it was; otherwise it goes upstream, and when upstream succeeds *)
(* it replaces the entry by the new value with inserted_at = now and       *)
(* returns that value.                                                     *)
C8_Memoization ==
    [][FetchStep =>
          LET c == CacheOf(fetch')
              key == fetch'.key
          IN  IF Fresh(c, now, key, TtlOf(fetch'))
              THEN /\ ~fetch'.upstream
                   /\ fetch'.result = Some(c[key].data)
                   /\ CacheOfNext(fetch') = c
              ELSE /\ fetch'.upstream
                   /\ fetch'.outcome = "ok" =>
                         /\ key \in DOMAIN CacheOfNext(fetch')
                         /\ CacheOfNext(fetch')[key]
                               = CacheEntry(fetch'.result[1], now)
                         /\ \A k \in DOMAIN c \ {key} :
                               CacheOfNext(fetch')[k] = c[k]
      ]_vars

------------------------------------------------------------------------------
(* Every message of every session of the store. *)
AllMessageIds(us) ==
    UNION {UNION {MessageIds(us[u][sid]) : sid \in DOMAIN us[u]} : u \in DOMAIN us}

AllSessionIds(us) == UNION {DOMAIN us[u] : u \in DOMAIN us}

IsPrefix(a, b) == Len(a) <= Len(b) /\ SubSeq(b, 1, Len(a)) = a

(* Every session but (u, sid) is stored in both states, the same in both. *)
OthersUnchanged(u, sid) ==
    \A v \in DOMAIN user_sessions \cup DOMAIN user_sessions' :
       \A s \in SessionsOf(user_sessions, v) \cup SessionsOf(user_sessions', v) :
          <<v, s>> # <<u, sid>> =>
             /\ Stored(user_sessions, v, s)
             /\ Stored(user_sessions', v, s)
             /\ user_sessions'[v][s] = user_sessions[v][s]

(* A step in which op is called. *)
CallStep(op) == last = NoCall /\ last'.op = op

------------------------------------------------------------------------------
(* C11. A session's message list is append-only: in every step, a session  *)
(* that stays in the store has its earlier message list as a prefix of its *)
(* later one, and only an add_message step changes a message list.         *)
C11_MessagesAppendOnly ==
    [][\A u \in Users : \A sid \in SessionsOf(user_sessions, u) :
          Stored(user_sessions', u, sid) =>
             /\ IsPrefix(user_sessions[u][sid].messages,
                         user_sessions'[u][sid].messages)
             /\ user_sessions'[u][sid].messages # user_sessions[u][sid].messages
                   => CallStep("add_message")
      ]_vars

(* add_message has appended a second message to a session. *)
C11_Witness ==
    /\ last.op = "add_message"
    /\ last.ok
    /\ Len(user_sessions[last.user][last.sid].messages) >= 2
    /\ user_sessions[last.user][last.sid].messages[1] # last.res[1]

------------------------------------------------------------------------------
(* C12. create_session(user_id) returns a session whose session_id differs *)
(* from every session_id already in the store, whose message list is empty *)
(* and whose created_at equals last_activity; afterwards the session is    *)
(* stored under user_id, the sub-map being created if absent, and every    *)
(* other session is unchanged.                                             *)
C12_CreateSession ==
    [][CallStep("create_session") =>
          LET u == last'.user
              session == last'.res[1]
              sid == session.session_id
          IN  /\ last'.res # None
              /\ sid \notin AllSessionIds(user_sessions)
              /\ session.messages = <<>>
              /\ session.created_at = session.last_activity
              /\ session.created_at = isoformat(now)
              /\ Stored(user_sessions', u, sid)
              /\ user_sessions'[u][sid] = session
              /\ OthersUnchanged(u, sid)
      ]_vars

(* create_session has returned a user's second session, another user       *)
(* holding one too.                                                        *)
C12_Witness ==
    /\ last.op = "create_session"
    /\ Cardinality(SessionsOf(user_sessions, last.user)) = 2
    /\ \E v \in DOMAIN user_sessions : v # last.user /\ user_sessions[v] # <<>>

------------------------------------------------------------------------------
(* C13. A successful add_message on a live session appends exactly one     *)
(* message carrying the given role and content and a message_id not used   *)
(* by any other message, sets the session's last_activity to the current   *)
(* time, returns that message, and changes no other session.               *)
C13_AddMessageAppendsOne ==
    [][(CallStep("add_message") /\ last'.ok) =>
          LET u == last'.user
              sid == last'.sid
              message == last'.res[1]
          IN  /\ Stored(user_sessions, u, sid)
              /\ ~Expired(user_sessions[u][sid], now)
              /\ Stored(user_sessions', u, sid)
              /\ user_sessions'[u][sid].messages
                    = Append(user_sessions[u][sid].messages, message)
              /\ \A m \in MessageInputs :
                    AddMessage(sid, m[1], m[2], u) =>
                       message.role = m[1] /\ message.content = m[2]
              /\ message.message_id \notin AllMessageIds(user_sessions)
              /\ user_sessions'[u][sid].last_activity = isoformat(now)
              /\ user_sessions'[u][sid].session_id = user_sessions[u][sid].session_id
              /\ user_sessions'[u][sid].created_at = user_sessions[u][sid].created_at
              /\ OthersUnchanged(u, sid)
      ]_vars

(* add_message has succeeded on a session some time after its last         *)
(* activity, other sessions being stored.                                  *)
C13_Witness ==
    /\ last.op = "add_message"
    /\ last.ok
    /\ user_sessions[last.user][last.sid].created_at # isoformat(now)
    /\ user_sessions[last.user][last.sid].last_activity = isoformat(now)
    /\ Cardinality(AllSessionIds(user_sessions)) >= 2

------------------------------------------------------------------------------
(* C14. add_message on a session that is not stored under the given user,  *)
(* or that is expired, returns the absent result and leaves the whole      *)
(* store unchanged.                                                        *)
C14_AddMessageAbsent ==
    [][CallStep("add_message") =>
          LET u == last'.user
              sid == last'.sid
          IN  (~Stored(user_sessions, u, sid)
                 \/ Expired(user_sessions[u][sid], now)) =>
                 /\ last'.res = None
                 /\ ~last'.ok
                 /\ user_sessions' = user_sessions
      ]_vars

(* add_message has been refused on a session that is stored, but expired. *)
C14_Witness ==
    /\ last.op = "add_message"
    /\ last.res = None
    /\ Stored(user_sessions, last.user, last.sid)
    /\ Expired(user_sessions[last.user][last.sid], now)

------------------------------------------------------------------------------
(* C15. delete_session(session_id, user_id) returns true iff a session     *)
(* with that id was stored under that user; then exactly that session is   *)
(* removed and nothing else changes; otherwise the store is unchanged.  A  *)
(* session just deleted is no longer stored, so that deleting it again     *)
(* returns false.                                                          *)
C15_DeleteSession ==
    [][CallStep("delete_session") =>
          LET u == last'.user
              sid == last'.sid
          IN  /\ last'.ok <=> Stored(user_sessions, u, sid)
              /\ last'.ok =>
                    /\ ~Stored(user_sessions', u, sid)
                    /\ OthersUnchanged(u, sid)
                    /\ DOMAIN user_sessions' = DOMAIN user_sessions
              /\ ~last'.ok => user_sessions' = user_sessions
      ]_vars

(* delete_session has removed one of a user's two sessions. *)
C15_Witness ==
    /\ last.op = "delete_session"
    /\ last.ok
    /\ ~Stored(user_sessions, last.user, last.sid)
    /\ SessionsOf(user_sessions, last.user) # {}

------------------------------------------------------------------------------
(* C16. get_session, get_conversation_history, list_sessions and           *)
(* get_session_stats never change the store, expired sessions included;    *)
(* get_session_stats reports total = active + expired, where total is the  *)
(* number of sessions stored under the user.                               *)
ReadOperations ==
    {"get_session", "get_conversation_history", "list_sessions", "get_session_stats"}

C16_ReadsDoNotMutate ==
    [][\A op \in ReadOperations : CallStep(op) =>
          /\ user_sessions' = user_sessions
          /\ op = "get_session_stats" =>
                LET stats == last'.res[1]
                IN  /\ stats.total_sessions
                          = Cardinality(SessionsOf(user_sessions, last'.user))
                    /\ stats.total_sessions
                          = stats.active_sessions + stats.expired_sessions
                    /\ stats.active_sessions >= 0
                    /\ stats.expired_sessions >= 0
      ]_vars

(* get_session_stats has counted one active and one expired session of a   *)
(* user, and the expired one is still stored.                              *)
C16_Witness ==
    /\ last.op = "get_session_stats"
    /\ last.res[1].active_sessions = 1
    /\ last.res[1].expired_sessions = 1
    /\ \E sid \in SessionsOf(user_sessions, last.user) :
          Expired(user_sessions[last.user][sid], now)

------------------------------------------------------------------------------
(* C17. For a user that never had a session (a user_id that is no key of   *)
(* the store: keys are never removed), every operation but create_session  *)
(* behaves as for zero sessions: get_session and add_message return        *)
(* absent, get_conversation_history and list_sessions return empty,        *)
(* delete_session returns false, delete_all_sessions and                   *)
(* cleanup_expired_sessions return 0, get_session_stats returns all        *)
(* zeros; and none of them changes the store.                              *)
ZeroStats == [total_sessions |-> 0, active_sessions |-> 0, expired_sessions |-> 0]

C17_UnknownUser ==
    [][/\ DOMAIN user_sessions \subseteq DOMAIN user_sessions'
       /\ (last = NoCall /\ last'.op \notin {"none", "create_session"}
             /\ last'.user \notin DOMAIN user_sessions) =>
             /\ user_sessions' = user_sessions
             /\ last'.op = "get_session" => last'.res = None
             /\ last'.op = "add_message" => last'.res = None
             /\ last'.op = "get_conversation_history" => last'.res = <<>>
             /\ last'.op = "list_sessions" => last'.res = <<>>
             /\ last'.op = "delete_session" => ~last'.ok
             /\ last'.op = "delete_all_sessions" => last'.n = 0
             /\ last'.op = "cleanup_expired_sessions" => last'.n = 0
             /\ last'.op = "get_session_stats" => last'.res = Some(ZeroStats)
      ]_vars

(* list_sessions was called for a user that never had a session, while     *)
(* another user has a live one.                                            *)
C17_Witness ==
    /\ last.op = "list_sessions"
    /\ last.user \notin DOMAIN user_sessions
    /\ \E v \in DOMAIN user_sessions : \E sid \in DOMAIN user_sessions[v] :
          ~Expired(user_sessions[v][sid], now)

------------------------------------------------------------------------------
(* C18. list_sessions(user_id, limit) returns only non-expired sessions of *)
(* that user, each once, ordered by last_activity descending, and at most  *)
(* `limit` of them (default 50): the `limit` most recently active ones.    *)
LiveSessions(us, t, u) ==
    {sid \in SessionsOf(us, u) : ~Expired(us[u][sid], t)}

C18_ListSessions ==
    last.op = "list_sessions" =>
       LET u == last.user
           res == last.res
           lim == IF last.limit = Unset THEN DefaultListLimit ELSE last.limit[1]
           live == LiveSessions(user_sessions, now, u)
           listed == {res[i].session_id : i \in 1..Len(res)}
           At(sid) == fromisoformat(user_sessions[u][sid].last_activity)
       IN  /\ listed \subseteq live
           /\ \A i \in 1..Len(res) : res[i] = user_sessions[u][res[i].session_id]
           /\ \A i, j \in 1..Len(res) :
                 i < j => /\ res[i].session_id # res[j].session_id
                          /\ At(res[i].session_id) >= At(res[j].session_id)
           /\ Len(res) = Min(lim, Cardinality(live))
           /\ \A sid \in live \ listed : \A other \in listed : At(sid) <= At(other)

(* list_sessions with limit 1 has returned the more recent of a user's two *)
(* live sessions.                                                          *)
C18_Witness ==
    /\ last.op = "list_sessions"
    /\ last.limit = <<1>>
    /\ Len(last.res) = 1
    /\ \E sid \in LiveSessions(user_sessions, now, last.user) :
          fromisoformat(user_sessions[last.user][sid].last_activity)
             < fromisoformat(last.res[1].last_activity)

------------------------------------------------------------------------------
(* The cleanup task: notions the properties are stated with.               *)

(* The session was stored and expired when the latest sweep started. *)
ExpiredAtStart(v, sid) ==
    /\ Stored(sweeper.store, v, sid)
    /\ Expired(sweeper.store[v][sid], sweeper.started)

(* A step that ends a sweep. *)
SweepEnds == sweeper.pc = "sweeping" /\ sweeper'.pc = "sleeping"

------------------------------------------------------------------------------
(* C19. A sweep calls cleanup_expired_sessions for every user_id known at  *)
(* its start, and when it completes no session that was expired at its     *)
(* start remains; and as long as the task is not cancelled, every session  *)
(* that is expired is eventually removed from the store.                   *)
C19_SweepRemovesExpired ==
    /\ [][(SweepEnds /\ sweeper'.ended = "completed") =>
             /\ sweeper'.called = DOMAIN sweeper.store
             /\ \A v \in DOMAIN sweeper.store : \A sid \in DOMAIN sweeper.store[v] :
                   ExpiredAtStart(v, sid) => ~Stored(user_sessions', v, sid)
         ]_vars
    /\ \A u \in Users : \A sid \in 1..MaxSweepOps :
          (Stored(user_sessions, u, sid) /\ Expired(user_sessions[u][sid], now))
             ~> (~Stored(user_sessions, u, sid) \/ sweeper.pc = "cancelled")

(* A sweep over two users has completed and has removed a session that was *)
(* expired when it started.                                                *)
C19_Witness ==
    /\ sweeper.pc = "sleeping"
    /\ sweeper.ended = "completed"
    /\ Cardinality(sweeper.called) = 2
    /\ \E v \in DOMAIN sweeper.store : \E sid \in DOMAIN sweeper.store[v] :
          ExpiredAtStart(v, sid) /\ ~Stored(user_sessions, v, sid)

------------------------------------------------------------------------------
(* C20. If cleanup_expired_sessions fails for one user during a sweep, the *)
(* sweeper goes on with the next user in the same sweep: when the sweep    *)
(* ends, cleanup has been called for every user known at its start, and no *)
(* session of the other users that was expired at its start remains; and   *)
(* the task is still there for later sweeps.                               *)
C20_SweepContinuesAfterFailure ==
    (sweeper.pc # "sweeping" /\ sweeper.ended = "raised") =>
       /\ sweeper.pc = "sleeping" \/ sweeper.pc = "cancelled"
       /\ sweeper.called = DOMAIN sweeper.store
       /\ \A v \in DOMAIN sweeper.store \ sweeper.raised :
             \A sid \in DOMAIN sweeper.store[v] :
                ExpiredAtStart(v, sid) => ~Stored(user_sessions, v, sid)

------------------------------------------------------------------------------
(* C21. Cancelling the sweeper stops all future sweeps: once cancelled the *)
(* task makes no further cleanup_expired_sessions call; cancellation takes *)
(* effect only at the sleep and touches nothing; a sweep that has started  *)
(* runs to completion for all users; and outside a sweep the store is      *)
(* never left with a cleanup applied to some of the users only.            *)
C21_CancelStopsSweeps ==
    /\ [][sweeper.pc = "cancelled" => sweeper' = sweeper]_vars
    /\ [][(sweeper.pc # "cancelled" /\ sweeper'.pc = "cancelled") =>
             /\ sweeper.pc = "sleeping"
             /\ user_sessions' = user_sessions
         ]_vars
    /\ [][sweeper.pc = "sweeping" =>
             /\ sweeper'.pc \in {"sweeping", "sleeping"}
             /\ sweeper'.pc = "sleeping" => sweeper'.ended = "completed"
         ]_vars
    /\ [](sweeper.pc # "sweeping" /\ sweeper.ended # "none"
             => sweeper.called = DOMAIN sweeper.store)
    /\ (sweeper.pc = "sweeping") ~> (sweeper.pc = "sleeping")

(* The task was cancelled after a completed sweep, and a session that has  *)
(* expired since is still stored.                                          *)
C21_Witness ==
    /\ sweeper.pc = "cancelled"
    /\ sweeper.ended = "completed"
    /\ \E v \in DOMAIN user_sessions : \E sid \in DOMAIN user_sessions[v] :
          Expired(user_sessions[v][sid], now)

------------------------------------------------------------------------------
(* The chat endpoints: notions the properties are stated with.             *)

Range(seq) == {seq[i] : i \in 1..Len(seq)}

(* The ids of the messages the send requests have appended to (u, sid). *)
AppendedTo(u, sid) ==
    UNION {Range(requests[r].appended) :
              r \in {q \in 1..MaxRequests : /\ requests[q].kind = "send"
                                            /\ requests[q].user = u
                                            /\ requests[q].session = sid}}

WellFormed(message) ==
    \/ message.role = "user" /\ message.content = ChatText
    \/ message.role = "assistant" /\ message.content = ReplyText

------------------------------------------------------------------------------
(* C22. Concurrent add_message calls on the same live session are atomic   *)
(* with respect to each other, also with the sweeper and deletes running:  *)
(* a stored session holds every message that was appended to it, each once *)
(* and whole, in the order of the calls, and nothing else.                 *)
C22_ConcurrentAppends ==
    \A u \in DOMAIN user_sessions : \A sid \in DOMAIN user_sessions[u] :
       LET msgs == user_sessions[u][sid].messages
       IN  /\ {msgs[i].message_id : i \in 1..Len(msgs)} = AppendedTo(u, sid)
           /\ \A i, j \in 1..Len(msgs) :
                 i < j => msgs[i].message_id < msgs[j].message_id
           /\ \A i \in 1..Len(msgs) : WellFormed(msgs[i])

(* Two sends to one session were pending together: the one that arrived    *)
(* later has been answered, the earlier one is inside the agent call, and  *)
(* the session holds the messages of both.                                 *)
C22_Witness ==
    \E r1, r2 \in 1..MaxRequests :
       /\ r1 < r2
       /\ requests[r1].pc = "in_agent"
       /\ requests[r2].pc = "done"
       /\ requests[r2].status = 200
       /\ requests[r1].session = requests[r2].session
       /\ requests[r1].user = requests[r2].user
       /\ requests[r1].session_id # None
       /\ requests[r2].session_id # None
       /\ Len(user_sessions[requests[r1].user][requests[r1].session].messages) >= 3

------------------------------------------------------------------------------
(* C23. While one request is inside an upstream fetch, only that request   *)
(* is suspended: every other request that is waiting to be handled can be  *)
(* handled, and the sweeper, when its sleep is over, can sweep.            *)
C23_FetchBlocksOnlyItsRequest ==
    \A r \in 1..MaxRequests :
       requests[r].pc = "in_fetch" =>
          /\ \A q \in 1..MaxRequests \ {r} :
                requests[q].pc = "pending" =>
                   ENABLED (ServeSend(q) \/ ServeDelete(q))
          /\ sweeper.pc = "sleeping" => ENABLED ChatSweeperStep

------------------------------------------------------------------------------
(* C28. With sessions written only through send_chat_message: when no      *)
(* request is in progress every session's message list has even length and *)
(* alternates user, assistant from a user message on; a successful send has *)
(* appended exactly the user message directly followed by the assistant    *)
(* reply, and its response carries the id of that reply; a send that names *)
(* an unknown or expired session_id fails with 404, having created no      *)
(* session and appended nothing.                                           *)
Alternates(msgs) ==
    /\ Len(msgs) % 2 = 0
    /\ \A i \in 1..Len(msgs) :
          msgs[i].role = IF i % 2 = 1 THEN "user" ELSE "assistant"

C28_SendAlternates ==
    /\ running = 0 =>
          \A u \in DOMAIN user_sessions : \A sid \in DOMAIN user_sessions[u] :
             Alternates(user_sessions[u][sid].messages)
    /\ \A r \in 1..MaxRequests :
          (requests[r].pc = "done" /\ requests[r].kind = "send") =>
             /\ requests[r].status \in {200, 404}
             /\ requests[r].status = 200 =>
                   /\ Len(requests[r].appended) = 2
                   /\ requests[r].appended[2] = requests[r].appended[1] + 1
                   /\ requests[r].message_id = requests[r].appended[2]
             /\ requests[r].status = 404 =>
                   /\ requests[r].session_id # None
                   /\ requests[r].session = 0
                   /\ requests[r].appended = <<>>

------------------------------------------------------------------------------
(* C25. get_air_quality_data never raises: whenever what it asks upstream  *)
(* fails (an HTTP error status or a network exception, an empty geocoding  *)
(* result, an empty pollution list, any other exception) it returns None   *)
(* and both caches are left exactly as they were before the call.          *)
C25_AirQualityFailureIsNone ==
    [][(FetchStep /\ fetch'.op = "get_air_quality_data") =>
          /\ ~fetch'.raised
          /\ fetch'.outcome \in AirQualityOutcomes \ {"ok"} =>
                /\ fetch'.result = None
                /\ aq_cache' = aq_cache
                /\ cache' = cache
      ]_vars

(* A geocoding request came back empty for a key that has an old entry. *)
C25_Witness ==
    /\ fetch.op = "get_air_quality_data"
    /\ fetch.outcome = "no_coordinates"
    /\ fetch.result = None
    /\ fetch.key \in DOMAIN aq_cache

------------------------------------------------------------------------------
(* C26. No resurrection: a stored session whose last_activity is 24 hours  *)
(* old or older is not returned by get_session; a get_session or           *)
(* add_message call for it returns None; if it is still stored after a     *)
(* step it is unchanged and still that old; and a session that enters the  *)
(* store does so by create_session under an id never used before.          *)
C26_NoResurrection ==
    [][/\ \A u \in Users : \A sid \in SessionsOf(user_sessions, u) :
             Expired(user_sessions[u][sid], now) =>
                /\ get_session(user_sessions, now, sid, u) = None
                /\ (last = NoCall /\ last'.op \in {"get_session", "add_message"}
                      /\ last'.user = u /\ last'.sid = sid) => last'.res = None
                /\ Stored(user_sessions', u, sid) =>
                      /\ user_sessions'[u][sid] = user_sessions[u][sid]
                      /\ Expired(user_sessions'[u][sid], now')
                      /\ get_session(user_sessions', now', sid, u) = None
       /\ \A u \in Users : \A sid \in SessionsOf(user_sessions', u) :
             ~Stored(user_sessions, u, sid) =>
                /\ CallStep("create_session")
                /\ sid > uuidSessions
      ]_vars

(* add_message was called for a stored session that is past its 24 hours,  *)
(* and returned None.                                                      *)
C26_Witness ==
    /\ last.op = "add_message"
    /\ last.res = None
    /\ Stored(user_sessions, last.user, last.sid)
    /\ Expired(user_sessions[last.user][last.sid], now)

------------------------------------------------------------------------------
(* C27. delete_session and delete_all_sessions decide on presence, not on  *)
(* validity: delete_session called for a stored session that is expired    *)
(* (so that get_session returns None for it) removes it and returns True,  *)
(* and delete_all_sessions returns the number get_session_stats reports as *)
(* total_sessions, expired sessions included.                              *)
C27_DeletesDecideOnPresence ==
    [][/\ CallStep("delete_session") =>
             LET u == last'.user
                 sid == last'.sid
             IN  (Stored(user_sessions, u, sid)
                    /\ Expired(user_sessions[u][sid], now)) =>
                    /\ get_session(user_sessions, now, sid, u) = None
                    /\ last'.ok
                    /\ ~Stored(user_sessions', u, sid)
       /\ CallStep("delete_all_sessions") =>
             /\ last'.n = get_session_stats(user_sessions, now,
                                            last'.user).total_sessions
             /\ last'.n = get_session_stats(user_sessions, now,
                                            last'.user).active_sessions
                        + get_session_stats(user_sessions, now,
                                            last'.user).expired_sessions
      ]_vars

(* delete_session has removed session 1, which was expired: no message was *)
(* ever added, and session 2, which was made no earlier than session 1, is *)
(* expired.                                                                *)
C27_Witness ==
    /\ last.op = "delete_session"
    /\ last.ok
    /\ last.sid = 1
    /\ uuidMessages = 0
    /\ \E u \in Users :
          /\ Stored(user_sessions, u, 2)
          /\ Expired(user_sessions[u][2], now)

------------------------------------------------------------------------------
(* C30. Timestamps: after every step, every stored session has             *)
(* created_at <= last_activity, message timestamps that do not decrease    *)
(* along the list, and last_activity at or after the timestamp of its last *)
(* message; and the last_activity of a session that stays stored does not  *)
(* decrease in the step.                                                   *)
C30_Timestamps ==
    [][\A u \in Users : \A sid \in SessionsOf(user_sessions', u) :
          LET session == user_sessions'[u][sid]
              msgs == session.messages
          IN  /\ fromisoformat(session.created_at)
                    <= fromisoformat(session.last_activity)
              /\ \A i \in 1..(Len(msgs) - 1) :
                    fromisoformat(msgs[i].timestamp)
                       <= fromisoformat(msgs[i + 1].timestamp)
              /\ msgs # <<>> =>
                    fromisoformat(msgs[Len(msgs)].timestamp)
                       <= fromisoformat(session.last_activity)
              /\ Stored(user_sessions, u, sid) =>
                    fromisoformat(user_sessions[u][sid].last_activity)
                       <= fromisoformat(session.last_activity)
      ]_vars

(* A session holds two messages added at different times, the second one  *)
(* after the session was made.                                             *)
C30_Witness ==
    \E u \in Users : \E sid \in SessionsOf(user_sessions, u) :
       LET session == user_sessions[u][sid]
       IN  /\ Len(session.messages) = 2
           /\ fromisoformat(session.messages[1].timestamp)
                 < fromisoformat(session.messages[2].timestamp)
           /\ fromisoformat(session.created_at)
                 < fromisoformat(session.last_activity)

------------------------------------------------------------------------------
(* C24. _get_aqi_from_pollutants maps every PM2.5 concentration into the   *)
(* AQI band of the breakpoint interval it falls in: up to 12.0 gives 0..50 *)
(* (8.0 gives 33), above 12.0 up to 35.4 gives 51..100, above 35.4 up to   *)
(* 55.4 gives 101..150, above 55.4 up to 150.4 gives 151..200, above 150.4 *)
(* up to 250.4 gives 201..300, above 250.4 up to 350.4 gives 301..400,     *)
(* above 350.4 up to 500.4 gives 401..500, above 500.4 gives exactly 500.  *)
Within(pm25, lo, hi) ==
    lo * (Pm25PerUnit \div 10) < pm25 /\ pm25 <= hi * (Pm25PerUnit \div 10)

C24_AqiBands ==
    probe.op = "_get_aqi_from_pollutants" =>
       LET pm25 == probe.pm25
           aqi == probe.result[1]
       IN  /\ pm25 <= 12 * Pm25PerUnit => aqi \in 0..50
           /\ pm25 = 8 * Pm25PerUnit => aqi = 33
           /\ Within(pm25, 120, 354) => aqi \in 51..100
           /\ Within(pm25, 354, 554) => aqi \in 101..150
           /\ Within(pm25, 554, 1504) => aqi \in 151..200
           /\ Within(pm25, 1504, 2504) => aqi \in 201..300
           /\ Within(pm25, 2504, 3504) => aqi \in 301..400
           /\ Within(pm25, 3504, 5004) => aqi \in 401..500
           /\ pm25 > 5004 * (Pm25PerUnit \div 10) => aqi = 500

------------------------------------------------------------------------------
(* C29. Cache keys do not alias: a value cached for one (kind, city, days) *)
(* is never returned for another; what a call returns, unless it is an     *)
(* error, is the data of the kind, city and days it was called with.       *)
C29_KeysDoNotAlias ==
    (probe.op \in Kinds /\ probe.result[1] # ErrorResponse) =>
       probe.result[1] = Response(probe.op, probe.city, probe.days)

====
